---- MODULE Spec2Model ----
(***************************************************************************)
(* Model of reference/solution.py: the observable customer-service agent.  *)
(*                                                                         *)
(* State: the module-level Prometheus instruments, the PROMETHEUS_AVAILABLE*)
(* flag, the outcome of create_server's start_http_server, and, for each   *)
(* tool invocation the dispatcher runs concurrently, the handler's frame   *)
(* (its Python locals), its position in the handler, what it has written   *)
(* to the log sink and the registry so far, and what it handed back.       *)
(*                                                                         *)
(* Every logger call and every instrument update is one step, so that      *)
(* invocations interleave between any two of them; the statements that     *)
(* touch only the handler's own locals (reading raw_data, timing, building *)
(* the result) belong to the step of the shared operation they lead to or  *)
(* follow.  The instruments' inc()/observe() are single steps because      *)
(* prometheus_client guards each value with its own lock.                  *)
(*                                                                         *)
(* Durations are integers in microseconds: duration_ms is dur_us / 1000,   *)
(* round(duration_ms, 2) is a multiple of 10 us, duration_ms / 1000 (the   *)
(* histogram observation, in seconds) is dur_us / 10^6.                    *)
(***************************************************************************)
EXTENDS Integers, Sequences, FiniteSets, TLC

\* ------------------------------------------------------------------ bounds
\* number of tool invocations the dispatcher runs (concurrently)
NumInvocations == 2

Invocations == 1..NumInvocations

\* --------------------------------------------------------------- constants
AGENT == "observable-agent"

DEFAULT_METRICS_PORT == 9090

Tools == {"get_order_status", "create_ticket", "transfer_specialist", "system_status"}

PriorityEnum == {"low", "medium", "high"}

DepartmentEnum == {"sales", "support", "billing"}

\* histogram buckets, in microseconds (0.05 s .. 10 s)
LatencyBuckets == {50000, 100000, 250000, 500000, 1000000, 2500000, 5000000, 10000000}

FALLBACK_TEXT == <<"I'm having trouble looking up that order. ", "Can I help with something else?">>

EXTRA_FIELDS == {"call_id", "customer_id", "function_name", "duration_ms", "error_type", "ticket_id", "priority", "department"}

AVAILABLE_METRICS == {"voice_agent_calls_total", "voice_agent_function_calls_total", "voice_agent_function_latency_seconds", "voice_agent_tickets_total", "voice_agent_transfers_total", "voice_agent_errors_total"}

\* ------------------------------------------------------------------ inputs
\* raw_data as the dispatcher passes it: None, a dict without "call_id",
\* a dict with "call_id"
NoneData == [isNone |-> TRUE, keys |-> {}, call_id |-> ""]

EmptyDict == [isNone |-> FALSE, keys |-> {}, call_id |-> ""]

CallIds == {"c1"}

RawDatas == {NoneData, EmptyDict} \cup {[isNone |-> FALSE, keys |-> {"call_id"}, call_id |-> c] : c \in CallIds}

OrderIds == {"A1"}

\* the "priority" argument: absent (the default applies) or a value of the enum
Absent == "<absent>"

PriorityArgs == {Absent, "high"}

DepartmentArgs == {"billing"}

\* elapsed perf_counter time, in microseconds, of the span each handler times:
\* the 0.2 s lookup when it completes, the lookup when it raises, making a ticket id
LookupDurations == {200268}

FailedLookupDurations == {3415}

TicketDurations == {137}

\* wall-clock stamps datetime.now() can yield while a ticket is created
TicketStamps == {"20261103091200"}

\* the names of the fault classes a handler's business logic raises
FaultTypes == {"TimeoutError", "RuntimeError", "AttributeError"}

NoFault == [type |-> "", msg |-> ""]

\* faults the wrapped business logic can raise: a type and the text str(e) gives
BodyFaults == {[type |-> "TimeoutError", msg |-> "lookup timed out"], [type |-> "RuntimeError", msg |-> ""]}

\* what agent.get_swml() can raise during the detailed health probe
SwmlFaults == {[type |-> "RuntimeError", msg |-> "render failed"], [type |-> "TypeError", msg |-> "not serializable"], [type |-> "ValueError", msg |-> ""]}

\* the fault the making of a ticket id can raise
TicketFaults == {[type |-> "RuntimeError", msg |-> "ticket store down"]}

APP_VERSION == "1.0.0"

NoneTypeGet == [type |-> "AttributeError", msg |-> "'NoneType' object has no attribute 'get'"]

VARIABLES
  PROMETHEUS_AVAILABLE,   \* the import of prometheus_client succeeded
  metrics_server_started, \* start_http_server(metrics_port) returned normally
  CALLS_TOTAL, ACTIVE_CALLS, FUNCTION_CALLS, FUNCTION_LATENCY,
  TICKETS_CREATED, TRANSFERS_TOTAL, ERRORS_TOTAL,  \* the instruments: label tuple -> value
  pc,        \* pc[i]: where invocation i is in its handler
  frame,     \* frame[i]: the handler's arguments and locals
  emitted,   \* emitted[i]: log records written and instrument updates made by invocation i, in order
  result,    \* result[i]: what the dispatcher got from invocation i
  health_resp, ready_resp, detailed_resp, info_resp,  \* last response of each endpoint
  swml_exc   \* what agent.get_swml() raised in the last detailed health probe

instruments == <<CALLS_TOTAL, ACTIVE_CALLS, FUNCTION_CALLS, FUNCTION_LATENCY, TICKETS_CREATED, TRANSFERS_TOTAL, ERRORS_TOTAL>>

endpoints == <<health_resp, ready_resp, detailed_resp, info_resp, swml_exc>>

process == <<PROMETHEUS_AVAILABLE, metrics_server_started>>

calls == <<pc, frame, emitted, result>>

vars == <<process, instruments, calls, endpoints>>

\* ---------------------------------------------------------------- helpers
Empty == <<>>

NoResponse == [kind |-> "none"]

\* dict.get("call_id", "unknown")
RawDataGet(raw_data) == IF "call_id" \in raw_data.keys THEN raw_data.call_id ELSE "unknown"

\* str(e)
Str(e) == e.msg

\* round(duration_ms, 2), on microseconds: to the nearest 10, halves to even
Round2(us) == LET q == us \div 10  r == us % 10 IN IF r > 5 \/ (r = 5 /\ q % 2 = 1) THEN (q + 1) * 10 ELSE q * 10

\* an increment that is lost when the child already holds a value
CounterInc_lost(counter, labels) == IF labels \in DOMAIN counter THEN counter ELSE counter @@ (labels :> 1)

\* Counter.labels(...).inc(): the child is created on first use
CounterInc(counter, labels) == IF labels \in DOMAIN counter THEN [counter EXCEPT ![labels] = @ + 1] ELSE counter @@ (labels :> 1)

\* an observation that replaces what the child held instead of adding to it
HistogramObserve_reset(hist, labels, v) ==
  LET new == [count |-> 1, sum |-> v, buckets |-> [b \in LatencyBuckets |-> IF v <= b THEN 1 ELSE 0]]
  IN IF labels \in DOMAIN hist THEN [hist EXCEPT ![labels] = new] ELSE hist @@ (labels :> new)

\* Histogram.labels(...).observe(v): every bucket v fits in, the sum and the count
HistogramObserve(hist, labels, v) ==
  LET old == IF labels \in DOMAIN hist THEN hist[labels] ELSE [count |-> 0, sum |-> 0, buckets |-> [b \in LatencyBuckets |-> 0]]
      new == [count |-> old.count + 1, sum |-> old.sum + v, buckets |-> [b \in LatencyBuckets |-> IF v <= b THEN old.buckets[b] + 1 ELSE old.buckets[b]]]
  IN IF labels \in DOMAIN hist THEN [hist EXCEPT ![labels] = new] ELSE hist @@ (labels :> new)

\* JSONFormatter.format: the fixed fields plus the allow-listed extras
JSONFormatter_format(level, message, extra) ==
  [level |-> level, logger |-> "agent", message |-> message, fields |-> [k \in (DOMAIN extra) \cap EXTRA_FIELDS |-> extra[k]]]

LogEvent(level, message, extra) == [ev |-> "log", rec |-> JSONFormatter_format(level, message, extra)]

MetricEvent(op, name, labels) == [ev |-> "metric", op |-> op, name |-> name, labels |-> labels]

NewFrame(func, raw_data, order_id, priority_arg, department) ==
  [func |-> func, raw_data |-> raw_data, order_id |-> order_id, priority_arg |-> priority_arg,
   priority |-> IF priority_arg = Absent THEN "medium" ELSE priority_arg,
   department |-> department, call_id |-> "", dur_us |-> 0, success |-> TRUE, error |-> "",
   exc |-> NoFault, ticket_id |-> Empty]

IdleFrame == NewFrame("", NoneData, "", Absent, "")

\* --------------------------------------------------------------------- Init
\* The state once create_server() has returned: the import at the top of the
\* module has set PROMETHEUS_AVAILABLE, the instruments are registered and
\* empty, and start_http_server either came up or raised (and was printed).
Init ==
  /\ PROMETHEUS_AVAILABLE \in BOOLEAN
  /\ metrics_server_started \in (IF PROMETHEUS_AVAILABLE THEN BOOLEAN ELSE {FALSE})
  /\ CALLS_TOTAL = Empty /\ ACTIVE_CALLS = Empty /\ FUNCTION_CALLS = Empty
  /\ FUNCTION_LATENCY = Empty /\ TICKETS_CREATED = Empty /\ TRANSFERS_TOTAL = Empty
  /\ ERRORS_TOTAL = Empty
  /\ pc = [i \in Invocations |-> "idle"]
  /\ frame = [i \in Invocations |-> IdleFrame]
  /\ emitted = [i \in Invocations |-> Empty]
  /\ result = [i \in Invocations |-> NoResponse]
  /\ health_resp = NoResponse /\ ready_resp = NoResponse
  /\ detailed_resp = NoResponse /\ info_resp = NoResponse
  /\ swml_exc = NoFault

\* the guard forgotten: the instruments are updated whatever the flag says
MetricsActive_unguarded == TRUE

\* "if PROMETHEUS_AVAILABLE:" (lines 178, 289, 331), the guard of every
\* instrument update
MetricsActive == PROMETHEUS_AVAILABLE

\* ------------------------------------------------------------- dispatcher
\* The dispatcher starts invocation i of a registered tool with the
\* orchestrator's arguments.  Invocations are numbered in the order they start.
Invoke(i) ==
  /\ pc[i] = "idle"
  /\ \A j \in Invocations : j < i => pc[j] # "idle"
  /\ \/ \E o \in OrderIds, rd \in RawDatas :
          frame' = [frame EXCEPT ![i] = NewFrame("get_order_status", rd, o, Absent, "")]
     \/ \E p \in PriorityArgs, rd \in RawDatas :
          frame' = [frame EXCEPT ![i] = NewFrame("create_ticket", rd, "", p, "")]
     \/ \E d \in DepartmentArgs, rd \in RawDatas :
          frame' = [frame EXCEPT ![i] = NewFrame("transfer_specialist", rd, "", Absent, d)]
     \/ frame' = [frame EXCEPT ![i] = NewFrame("system_status", NoneData, "", Absent, "")]
  /\ pc' = [pc EXCEPT ![i] = "entry"]
  /\ UNCHANGED <<process, instruments, emitted, result, endpoints>>

\* a fault leaves the handler: the dispatcher gets the fault, not a response
Raise(i, e) ==
  /\ pc' = [pc EXCEPT ![i] = "raised"]
  /\ result' = [result EXCEPT ![i] = [kind |-> "fault", type |-> e.type, msg |-> e.msg]]

\* the SwaigFunctionResult each handler builds in its return statement
\* (lines 230, 241-244, 295-301, 337-340, 344)
HandlerResult(f) ==
  CASE f.func = "get_order_status" /\ f.success ->
         [kind |-> "result", text |-> <<"Order ", f.order_id, ": ", "shipped">>, global_data |-> Empty, transfer |-> ""]
    [] f.func = "get_order_status" /\ ~f.success ->
         [kind |-> "result", text |-> FALLBACK_TEXT, global_data |-> Empty, transfer |-> ""]
    [] f.func = "create_ticket" ->
         [kind |-> "result", text |-> <<"Created ticket ", f.ticket_id, ".">>,
          global_data |-> ("ticket_id" :> f.ticket_id) @@ ("ticket_priority" :> <<f.priority>>), transfer |-> ""]
    [] f.func = "transfer_specialist" ->
         [kind |-> "result", text |-> <<"Transferring to ", f.department, ".">>, global_data |-> Empty,
          transfer |-> f.department]
    [] OTHER ->
         [kind |-> "result", text |-> <<"All systems operational.">>, global_data |-> Empty, transfer |-> ""]

\* the handler's return statement: the dispatcher gets the result
Return(i) ==
  /\ pc' = [pc EXCEPT ![i] = "returned"]
  /\ result' = [result EXCEPT ![i] = HandlerResult(frame[i])]

\* ------------------------------------------------------ _log_function_call
\* Once _log_function_call has returned, create_ticket goes on to its business
\* event (line 278) and get_order_status returns (lines 230, 241-244).
AfterLogFunctionCall(i) ==
  IF frame[i].func = "create_ticket"
  THEN pc' = [pc EXCEPT ![i] = "biz_log"] /\ UNCHANGED result
  ELSE Return(i)

\* lines 165-178: build extra, write the INFO or the ERROR record
log_function_call_log(i) ==
  /\ pc[i] = "lfc_log"
  /\ LET f == frame[i]
         extra == ("call_id" :> f.call_id) @@ ("function_name" :> f.func) @@ ("duration_ms" :> Round2(f.dur_us))
     IN emitted' = [emitted EXCEPT ![i] = Append(@,
          IF f.success
          THEN LogEvent("INFO", <<"Function ", f.func, " completed">>, extra)
          ELSE LogEvent("ERROR", <<"Function ", f.func, " failed: ", f.error>>, extra @@ ("error_type" :> f.error)))]
  /\ IF MetricsActive
     THEN pc' = [pc EXCEPT ![i] = "lfc_calls"] /\ UNCHANGED result
     ELSE AfterLogFunctionCall(i)
  /\ UNCHANGED <<process, instruments, frame, endpoints>>

\* lines 179-185: FUNCTION_CALLS.labels(agent, function, status).inc()
log_function_call_calls(i) ==
  /\ pc[i] = "lfc_calls"
  /\ LET labels == <<AGENT, frame[i].func, IF frame[i].success THEN "success" ELSE "error">>
     IN /\ FUNCTION_CALLS' = CounterInc(FUNCTION_CALLS, labels)
        /\ emitted' = [emitted EXCEPT ![i] = Append(@, MetricEvent("inc", "function_calls_total", labels))]
  /\ pc' = [pc EXCEPT ![i] = "lfc_latency"]
  /\ UNCHANGED <<process, CALLS_TOTAL, ACTIVE_CALLS, FUNCTION_LATENCY, TICKETS_CREATED, TRANSFERS_TOTAL, ERRORS_TOTAL, frame, result, endpoints>>

\* lines 187-192: FUNCTION_LATENCY.labels(agent, function).observe(duration_ms / 1000)
log_function_call_latency(i) ==
  /\ pc[i] = "lfc_latency"
  /\ LET labels == <<AGENT, frame[i].func>>
     IN /\ FUNCTION_LATENCY' = HistogramObserve(FUNCTION_LATENCY, labels, frame[i].dur_us)
        /\ emitted' = [emitted EXCEPT ![i] = Append(@, MetricEvent("observe", "function_latency_seconds", labels))]
  /\ IF frame[i].success
     THEN AfterLogFunctionCall(i)
     ELSE pc' = [pc EXCEPT ![i] = "lfc_errors"] /\ UNCHANGED result
  /\ UNCHANGED <<process, CALLS_TOTAL, ACTIVE_CALLS, FUNCTION_CALLS, TICKETS_CREATED, TRANSFERS_TOTAL, ERRORS_TOTAL, frame, endpoints>>

\* lines 192-197: ERRORS_TOTAL.labels(agent, function, error or "unknown").inc()
log_function_call_errors(i) ==
  /\ pc[i] = "lfc_errors"
  /\ LET labels == <<AGENT, frame[i].func, IF frame[i].error # "" THEN frame[i].error ELSE "unknown">>
     IN /\ ERRORS_TOTAL' = CounterInc(ERRORS_TOTAL, labels)
        /\ emitted' = [emitted EXCEPT ![i] = Append(@, MetricEvent("inc", "errors_total", labels))]
  /\ AfterLogFunctionCall(i)
  /\ UNCHANGED <<process, CALLS_TOTAL, ACTIVE_CALLS, FUNCTION_CALLS, FUNCTION_LATENCY, TICKETS_CREATED, TRANSFERS_TOTAL, frame, endpoints>>

\* --------------------------------------------------------- get_order_status
\* lines 214-228 and 232-240, up to the call of _log_function_call.
\* raw_data.get is outside the try.  The simulated lookup completes, and the
\* call is logged as a success; or it raises, and the except clause logs the
\* call as failed with error=str(e).
get_order_status(i) ==
  /\ pc[i] = "entry" /\ frame[i].func = "get_order_status"
  /\ IF frame[i].raw_data.isNone
     THEN Raise(i, NoneTypeGet) /\ UNCHANGED frame
     ELSE /\ \/ \E d \in LookupDurations :
                  frame' = [frame EXCEPT ![i].call_id = RawDataGet(frame[i].raw_data),
                                         ![i].dur_us = d, ![i].success = TRUE]
             \/ \E e \in BodyFaults, d \in FailedLookupDurations :
                  frame' = [frame EXCEPT ![i].call_id = RawDataGet(frame[i].raw_data),
                                         ![i].exc = e, ![i].dur_us = d,
                                         ![i].success = FALSE, ![i].error = Str(e)]
          /\ pc' = [pc EXCEPT ![i] = "lfc_log"]
          /\ UNCHANGED result
  /\ UNCHANGED <<process, instruments, emitted, endpoints>>

\* ------------------------------------------------------------ create_ticket
\* lines 265-276, up to the call of _log_function_call: call_id is "unknown"
\* when raw_data is None; the ticket id is made and timed; nothing catches a
\* fault of the ticket creation
create_ticket(i) ==
  /\ pc[i] = "entry" /\ frame[i].func = "create_ticket"
  /\ \/ \E d \in TicketDurations, t \in TicketStamps :
          /\ frame' = [frame EXCEPT ![i].call_id = IF frame[i].raw_data.isNone THEN "unknown" ELSE RawDataGet(frame[i].raw_data),
                                    ![i].dur_us = d, ![i].success = TRUE, ![i].ticket_id = <<"TKT-", t>>]
          /\ pc' = [pc EXCEPT ![i] = "lfc_log"]
          /\ UNCHANGED result
     \/ \E e \in TicketFaults : Raise(i, e) /\ UNCHANGED frame
  /\ UNCHANGED <<process, instruments, emitted, endpoints>>

\* lines 278-289: the "Ticket created" record
create_ticket_log(i) ==
  /\ pc[i] = "biz_log" /\ frame[i].func = "create_ticket"
  /\ LET f == frame[i]
         extra == ("call_id" :> f.call_id) @@ ("ticket_id" :> f.ticket_id) @@ ("priority" :> f.priority)
     IN emitted' = [emitted EXCEPT ![i] = Append(@, LogEvent("INFO", <<"Ticket created">>, extra))]
  /\ IF MetricsActive
     THEN pc' = [pc EXCEPT ![i] = "biz_inc"] /\ UNCHANGED result
     ELSE Return(i)
  /\ UNCHANGED <<process, instruments, frame, endpoints>>

\* lines 290-301: TICKETS_CREATED.labels(agent, priority).inc(), and the return
create_ticket_metric(i) ==
  /\ pc[i] = "biz_inc" /\ frame[i].func = "create_ticket"
  /\ LET labels == <<AGENT, frame[i].priority>>
     IN /\ TICKETS_CREATED' = CounterInc(TICKETS_CREATED, labels)
        /\ emitted' = [emitted EXCEPT ![i] = Append(@, MetricEvent("inc", "tickets_total", labels))]
  /\ Return(i)
  /\ UNCHANGED <<process, CALLS_TOTAL, ACTIVE_CALLS, FUNCTION_CALLS, FUNCTION_LATENCY, TRANSFERS_TOTAL, ERRORS_TOTAL, frame, endpoints>>

\* ------------------------------------------------------ transfer_specialist
\* lines 320-331: raw_data.get("call_id", "unknown"), then the
\* "Transfer initiated" record
transfer_specialist(i) ==
  /\ pc[i] = "entry" /\ frame[i].func = "transfer_specialist"
  /\ IF frame[i].raw_data.isNone
     THEN Raise(i, NoneTypeGet) /\ UNCHANGED <<frame, emitted>>
     ELSE LET call_id == RawDataGet(frame[i].raw_data)
              extra == ("call_id" :> call_id) @@ ("department" :> frame[i].department)
          IN /\ frame' = [frame EXCEPT ![i].call_id = call_id]
             /\ emitted' = [emitted EXCEPT ![i] = Append(@, LogEvent("INFO", <<"Transfer initiated">>, extra))]
             /\ IF MetricsActive
                THEN pc' = [pc EXCEPT ![i] = "biz_inc"] /\ UNCHANGED result
                ELSE pc' = [pc EXCEPT ![i] = "returned"]
                     /\ result' = [result EXCEPT ![i] = HandlerResult(frame'[i])]
  /\ UNCHANGED <<process, instruments, endpoints>>

\* lines 332-340: TRANSFERS_TOTAL.labels(agent, department).inc(), and the return
transfer_specialist_metric(i) ==
  /\ pc[i] = "biz_inc" /\ frame[i].func = "transfer_specialist"
  /\ LET labels == <<AGENT, frame[i].department>>
     IN /\ TRANSFERS_TOTAL' = CounterInc(TRANSFERS_TOTAL, labels)
        /\ emitted' = [emitted EXCEPT ![i] = Append(@, MetricEvent("inc", "transfers_total", labels))]
  /\ Return(i)
  /\ UNCHANGED <<process, CALLS_TOTAL, ACTIVE_CALLS, FUNCTION_CALLS, FUNCTION_LATENCY, TICKETS_CREATED, ERRORS_TOTAL, frame, endpoints>>

\* ------------------------------------------------------------ system_status
\* lines 342-344
system_status(i) ==
  /\ pc[i] = "entry" /\ frame[i].func = "system_status"
  /\ Return(i)
  /\ UNCHANGED <<process, instruments, frame, emitted, endpoints>>

\* ---------------------------------------------------------------- endpoints
\* GET /health, lines 370-376
health ==
  /\ health_resp' = [kind |-> "health", status |-> "healthy", version |-> APP_VERSION]
  /\ UNCHANGED <<process, instruments, calls, ready_resp, detailed_resp, info_resp, swml_exc>>

\* GET /ready, lines 379-381
ready ==
  /\ ready_resp' = [kind |-> "ready", ready |-> TRUE]
  /\ UNCHANGED <<process, instruments, calls, health_resp, detailed_resp, info_resp, swml_exc>>

\* the fold without its filter: an "unavailable" check counts against the verdict
AllHealthy_unfiltered(checks) == \A k \in DOMAIN checks : checks[k].status = "healthy"

\* lines 398-402: every check that is not "unavailable" is "healthy"
AllHealthy(checks) == \A k \in DOMAIN checks : checks[k].status # "unavailable" => checks[k].status = "healthy"

\* lines 386-396: the three checks, given what agent.get_swml() did
Checks(exc) ==
  ("agent" :> [status |-> "healthy", error |-> ""])
  @@ ("metrics" :> [status |-> IF PROMETHEUS_AVAILABLE THEN "healthy" ELSE "unavailable", error |-> ""])
  @@ ("swml_generation" :> IF exc = NoFault THEN [status |-> "healthy", error |-> ""]
                                            ELSE [status |-> "unhealthy", error |-> Str(exc)])

\* GET /health/detailed, lines 384-408
health_detailed ==
  /\ \E exc \in {NoFault} \cup SwmlFaults :
       /\ swml_exc' = exc
       /\ detailed_resp' = [kind |-> "detailed",
                            status |-> IF AllHealthy(Checks(exc)) THEN "healthy" ELSE "degraded",
                            checks |-> Checks(exc)]
  /\ UNCHANGED <<process, instruments, calls, health_resp, ready_resp, info_resp>>

\* the body /metrics/info returns, lines 413-424 (metrics_port: 0 stands for None)
MetricsInfo ==
  [kind |-> "info", metrics_available |-> PROMETHEUS_AVAILABLE,
   metrics_port |-> IF PROMETHEUS_AVAILABLE THEN DEFAULT_METRICS_PORT ELSE 0,
   available_metrics |-> IF PROMETHEUS_AVAILABLE THEN AVAILABLE_METRICS ELSE {}]

\* GET /metrics/info, lines 411-424
metrics_info ==
  /\ info_resp' = MetricsInfo
  /\ UNCHANGED <<process, instruments, calls, health_resp, ready_resp, detailed_resp, swml_exc>>

\* ------------------------------------------------------------ specifications
Step(i) ==
  \/ Invoke(i)
  \/ get_order_status(i)
  \/ create_ticket(i) \/ create_ticket_log(i) \/ create_ticket_metric(i)
  \/ transfer_specialist(i) \/ transfer_specialist_metric(i)
  \/ system_status(i)
  \/ log_function_call_log(i) \/ log_function_call_calls(i) \/ log_function_call_latency(i)
  \/ log_function_call_errors(i)

\* the tool invocations the dispatcher runs
Next == \E i \in Invocations : Step(i)

Spec == Init /\ [][Next]_vars

\* the polls of the health and info endpoints
NextHealth == health \/ ready \/ health_detailed \/ metrics_info

SpecHealth == Init /\ [][NextHealth]_vars

\* ================================================================ properties
\* What the properties below read off the state.
Finished(i) == pc[i] \in {"returned", "raised"}

AllReturned == \A i \in Invocations : Finished(i)

\* no invocation is between two instrument updates of _log_function_call
Quiescent == \A i \in Invocations : pc[i] \notin {"lfc_calls", "lfc_latency", "lfc_errors"}

\* invocation i met a fault while its handler ran
Faulted(i) == result[i].kind = "fault" \/ frame[i].exc # NoFault

IsCallRecord(e) == e.ev = "log" /\ "function_name" \in DOMAIN e.rec.fields

IsBusinessRecord(e) == e.ev = "log" /\ e.rec.message \in {<<"Ticket created">>, <<"Transfer initiated">>}

Logs(i) == SelectSeq(emitted[i], LAMBDA e : e.ev = "log")

CallRecords(i, level) == SelectSeq(emitted[i], LAMBDA e : IsCallRecord(e) /\ e.rec.level = level)

Updates(i, name) == SelectSeq(emitted[i], LAMBDA e : e.ev = "metric" /\ e.name = name)

Positions(i, P(_)) == {n \in 1..Len(emitted[i]) : P(emitted[i][n])}

Value(counter, labels) == IF labels \in DOMAIN counter THEN counter[labels] ELSE 0

RECURSIVE SumOver(_, _)
SumOver(counter, labelset) ==
  IF labelset = {} THEN 0
  ELSE LET l == CHOOSE x \in labelset : TRUE IN counter[l] + SumOver(counter, labelset \ {l})

Total(counter) == SumOver(counter, DOMAIN counter)

Counters == <<CALLS_TOTAL, FUNCTION_CALLS, TICKETS_CREATED, TRANSFERS_TOTAL, ERRORS_TOTAL>>

FallbackResponse == [kind |-> "result", text |-> FALLBACK_TEXT, global_data |-> Empty, transfer |-> ""]

\* ---------------------------------------------------------------------- C1
\* C1: every finished invocation whose handler met a fault has written exactly
\* one ERROR function-call record with a non-empty error_type and no INFO
\* function-call record, has (metrics active) incremented
\* function_calls_total{status=error} once and errors_total once for its
\* function, and has handed the fixed fallback apology to the caller.
C1_FaultLoggedCountedAndAnswered ==
  \A i \in Invocations : (Finished(i) /\ Faulted(i)) =>
    /\ Len(CallRecords(i, "ERROR")) = 1
    /\ CallRecords(i, "ERROR")[1].rec.fields["error_type"] # ""
    /\ Len(CallRecords(i, "INFO")) = 0
    /\ PROMETHEUS_AVAILABLE =>
         /\ Len(SelectSeq(Updates(i, "function_calls_total"), LAMBDA e : e.labels[2] = frame[i].func /\ e.labels[3] = "error")) = 1
         /\ Len(SelectSeq(Updates(i, "errors_total"), LAMBDA e : e.labels[2] = frame[i].func)) = 1
    /\ result[i] = FallbackResponse

\* ---------------------------------------------------------------------- C2
\* C2: every invocation of a registered tool that returned without meeting a
\* fault has written exactly one INFO function-call record carrying call_id,
\* function_name and duration_ms, has (metrics active) incremented
\* function_calls_total{status=success} for its function exactly once, and has
\* produced no ERROR record and no errors_total increment.
C2_SuccessLoggedAndCountedOnce ==
  \A i \in Invocations : (pc[i] = "returned" /\ ~Faulted(i)) =>
    /\ Len(CallRecords(i, "INFO")) = 1
    /\ {"call_id", "function_name", "duration_ms"} \subseteq DOMAIN CallRecords(i, "INFO")[1].rec.fields
    /\ PROMETHEUS_AVAILABLE =>
         Len(SelectSeq(Updates(i, "function_calls_total"), LAMBDA e : e.labels[2] = frame[i].func /\ e.labels[3] = "success")) = 1
    /\ Len(SelectSeq(Logs(i), LAMBDA e : e.rec.level = "ERROR")) = 0
    /\ Len(Updates(i, "errors_total")) = 0

\* ---------------------------------------------------------------------- C3
\* C3: no invocation lets a fault escape to the dispatcher: whatever is raised
\* while the call is handled, the invocation ends by returning a response.
C3_NoFaultEscapes ==
  \A i \in Invocations : Finished(i) => (pc[i] = "returned" /\ result[i].kind = "result")

\* ---------------------------------------------------------------------- C4
\* C4: a detailed health response is "healthy" exactly when every check whose
\* status is not "unavailable" is "healthy", and "degraded" otherwise; a fault
\* of the configuration probe is recorded as an "unhealthy" swml_generation
\* entry carrying the fault's description, and the poll still answers.
C4_DetailedHealthFold ==
  (detailed_resp # NoResponse \/ swml_exc # NoFault) =>
    /\ detailed_resp.kind = "detailed"
    /\ DOMAIN detailed_resp.checks = {"agent", "metrics", "swml_generation"}
    /\ detailed_resp.status \in {"healthy", "degraded"}
    /\ detailed_resp.status = "healthy" <=>
         \A k \in DOMAIN detailed_resp.checks :
           detailed_resp.checks[k].status # "unavailable" => detailed_resp.checks[k].status = "healthy"
    /\ swml_exc # NoFault =>
         detailed_resp.checks["swml_generation"] = [status |-> "unhealthy", error |-> swml_exc.msg]
    /\ swml_exc = NoFault => detailed_resp.checks["swml_generation"].status = "healthy"

\* a poll in which the configuration probe raised while metrics were
\* unavailable: the entry is "unhealthy", the verdict "degraded"
C4_Witness ==
  /\ detailed_resp # NoResponse
  /\ swml_exc \in SwmlFaults
  /\ detailed_resp.checks["metrics"].status = "unavailable"
  /\ detailed_resp.checks["swml_generation"].status = "unhealthy"
  /\ detailed_resp.status = "degraded"

\* ---------------------------------------------------------------------- C5
\* C5: when the metrics subsystem was never started (library absent, or the
\* exposition server failed to start), every detailed health response reports
\* checks.metrics.status = "unavailable" and, the other checks healthy,
\* status = "healthy".
C5_NeverStartedIsUnavailable ==
  (~metrics_server_started /\ detailed_resp # NoResponse) =>
    /\ detailed_resp.checks["metrics"].status = "unavailable"
    /\ (detailed_resp.checks["agent"].status = "healthy" /\ detailed_resp.checks["swml_generation"].status = "healthy")
         => detailed_resp.status = "healthy"

\* ---------------------------------------------------------------------- C6
\* the log records an invocation with these arguments and this outcome writes,
\* whatever the metrics flag
ExpectedLogs(i) ==
  LET f == frame[i] IN
  CASE result[i].kind = "fault" -> <<>>
    [] f.func = "get_order_status" /\ f.success ->
         <<LogEvent("INFO", <<"Function ", "get_order_status", " completed">>,
             ("call_id" :> RawDataGet(f.raw_data)) @@ ("function_name" :> "get_order_status") @@ ("duration_ms" :> Round2(f.dur_us)))>>
    [] f.func = "get_order_status" /\ ~f.success ->
         <<LogEvent("ERROR", <<"Function ", "get_order_status", " failed: ", f.exc.msg>>,
             ("call_id" :> RawDataGet(f.raw_data)) @@ ("function_name" :> "get_order_status") @@ ("duration_ms" :> Round2(f.dur_us))
             @@ ("error_type" :> f.exc.msg))>>
    [] f.func = "create_ticket" ->
         <<LogEvent("INFO", <<"Function ", "create_ticket", " completed">>,
             ("call_id" :> RawDataGet(f.raw_data)) @@ ("function_name" :> "create_ticket") @@ ("duration_ms" :> Round2(f.dur_us))),
           LogEvent("INFO", <<"Ticket created">>,
             ("call_id" :> RawDataGet(f.raw_data)) @@ ("ticket_id" :> f.ticket_id)
             @@ ("priority" :> IF f.priority_arg = Absent THEN "medium" ELSE f.priority_arg))>>
    [] f.func = "transfer_specialist" ->
         <<LogEvent("INFO", <<"Transfer initiated">>, ("call_id" :> RawDataGet(f.raw_data)) @@ ("department" :> f.department))>>
    [] OTHER -> <<>>

\* C6: with metrics inactive, no instrument's state ever changes, no
\* invocation faults for want of the backend (the only faults are those the
\* arguments and the business logic cause with metrics active too), every
\* finished invocation has written the log records its arguments and outcome
\* determine (the same with metrics active or not), and /metrics/info reports
\* metrics_available false, metrics_port null, available_metrics empty.
C6_InactiveMetricsAreNoOp ==
  /\ \A i \in Invocations : Finished(i) => Logs(i) = ExpectedLogs(i)
  /\ ~PROMETHEUS_AVAILABLE =>
       /\ \A n \in 1..Len(instruments) : instruments[n] = Empty
       /\ \A i \in Invocations : \A n \in 1..Len(emitted[i]) : emitted[i][n].ev # "metric"
       /\ \A i \in Invocations : pc[i] = "raised" =>
            \/ frame[i].raw_data.isNone /\ frame[i].func \in {"get_order_status", "transfer_specialist"}
            \/ frame[i].func = "create_ticket" /\ [type |-> result[i].type, msg |-> result[i].msg] \in TicketFaults
       /\ MetricsInfo.metrics_available = FALSE
       /\ MetricsInfo.metrics_port = 0
       /\ MetricsInfo.available_metrics = {}

\* metrics inactive; a ticket was created and a lookup failed, both answered
C6_Witness ==
  /\ ~PROMETHEUS_AVAILABLE
  /\ \E i, j \in Invocations :
       /\ pc[i] = "returned" /\ frame[i].func = "create_ticket"
       /\ pc[j] = "returned" /\ frame[j].func = "get_order_status" /\ ~frame[j].success

\* ---------------------------------------------------------------------- C7
\* C7: the label values the instruments hold stay within the fixed
\* enumerations: function in the tool set, status in {success, error},
\* priority in {low, medium, high}, department in {sales, support, billing},
\* error_type in the set of fault types (or "unknown").
C7_LabelsWithinEnumerations ==
  /\ \A l \in DOMAIN FUNCTION_CALLS : l[2] \in Tools /\ l[3] \in {"success", "error"}
  /\ \A l \in DOMAIN FUNCTION_LATENCY : l[2] \in Tools
  /\ \A l \in DOMAIN TICKETS_CREATED : l[2] \in PriorityEnum
  /\ \A l \in DOMAIN TRANSFERS_TOTAL : l[2] \in DepartmentEnum
  /\ \A l \in DOMAIN ERRORS_TOTAL : l[2] \in Tools /\ l[3] \in FaultTypes \cup {"unknown"}

\* ---------------------------------------------------------------------- C8
\* every function-call record of invocation i carries i's own call id,
\* function name and (rounded) duration
RecordsUntorn ==
  \A i \in Invocations : \A n \in Positions(i, IsCallRecord) :
    LET r == emitted[i][n].rec.fields IN
      /\ r["call_id"] = (IF frame[i].raw_data.isNone THEN "unknown" ELSE RawDataGet(frame[i].raw_data))
      /\ r["function_name"] = frame[i].func
      /\ r["duration_ms"] = Round2(frame[i].dur_us)

\* the invocations that ran the call bookkeeping (_log_function_call)
Bookkept == {i \in Invocations : Positions(i, IsCallRecord) # {}}

NoLostUpdate == (PROMETHEUS_AVAILABLE /\ AllReturned) => Total(FUNCTION_CALLS) = Cardinality(Bookkept)

CountersMonotone ==
  \A n \in 1..Len(Counters) : \A l \in DOMAIN Counters[n] :
    l \in DOMAIN Counters'[n] /\ Counters'[n][l] >= Counters[n][l]

\* C8: under every interleaving of the concurrent invocations, once all have
\* returned function_calls_total summed over its labels equals the number of
\* invocations that ran the call bookkeeping (metrics active), no counter
\* ever decreases in any step, and every function-call record's call_id,
\* function_name and duration_ms are those of the invocation that wrote it.
C8_NoLostUpdatesMonotoneUntorn == [](NoLostUpdate /\ RecordsUntorn) /\ [][CountersMonotone]_vars

\* all invocations have returned and two of them were counted under one label
C8_Witness ==
  /\ PROMETHEUS_AVAILABLE /\ AllReturned
  /\ Cardinality(Bookkept) >= 2
  /\ \E l \in DOMAIN FUNCTION_CALLS : FUNCTION_CALLS[l] >= 2

\* ---------------------------------------------------------------------- C9
\* C9: every returned create_ticket or transfer_specialist invocation has
\* written its own function-call record and (metrics active) incremented
\* function_calls_total before its business record, and has written the
\* business record and (metrics active) incremented the business counter
\* exactly once each, labelled with the call's priority (default "medium") or
\* department.
C9_BusinessEventAfterCallBookkeeping ==
  \A i \in Invocations : (pc[i] = "returned" /\ frame[i].func \in {"create_ticket", "transfer_specialist"}) =>
    LET biz == Positions(i, IsBusinessRecord)
        bizinc == Positions(i, LAMBDA e : e.ev = "metric" /\ e.name \in {"tickets_total", "transfers_total"})
        callrec == Positions(i, IsCallRecord)
        callinc == Positions(i, LAMBDA e : e.ev = "metric" /\ e.name = "function_calls_total")
        label == IF frame[i].func = "create_ticket"
                 THEN (IF frame[i].priority_arg = Absent THEN "medium" ELSE frame[i].priority_arg)
                 ELSE frame[i].department
    IN /\ Cardinality(biz) = 1
       /\ Cardinality(callrec) = 1
       /\ \A c \in callrec, b \in biz : c < b
       /\ PROMETHEUS_AVAILABLE =>
            /\ Cardinality(bizinc) = 1
            /\ Cardinality(callinc) = 1
            /\ \A c \in callinc, b \in biz \cup bizinc : c < b
            /\ \A b \in bizinc : emitted[i][b].labels[2] = label

\* --------------------------------------------------------------------- C10
\* C10: with metrics active, in every state where no invocation is inside the
\* instrument updates of the call bookkeeping, each function's number of
\* latency observations equals its function_calls_total over both statuses,
\* and its errors_total over all error types equals its
\* function_calls_total{status=error}.
C10_LatencyAndErrorsMatchCalls ==
  (PROMETHEUS_AVAILABLE /\ Quiescent) =>
    \A f \in Tools :
      /\ (IF <<AGENT, f>> \in DOMAIN FUNCTION_LATENCY THEN FUNCTION_LATENCY[<<AGENT, f>>].count ELSE 0)
           = Value(FUNCTION_CALLS, <<AGENT, f, "success">>) + Value(FUNCTION_CALLS, <<AGENT, f, "error">>)
      /\ SumOver(ERRORS_TOTAL, {l \in DOMAIN ERRORS_TOTAL : l[2] = f})
           = Value(FUNCTION_CALLS, <<AGENT, f, "error">>)

\* a function with a success and a failure on record, nothing in flight
C10_Witness ==
  /\ PROMETHEUS_AVAILABLE /\ Quiescent
  /\ Value(FUNCTION_CALLS, <<AGENT, "get_order_status", "success">>) >= 1
  /\ Value(FUNCTION_CALLS, <<AGENT, "get_order_status", "error">>) >= 1

====
